---- MODULE Spec2Model ----
(***************************************************************************)
(* The market_engine contract (contracts/market_engine): a constant-product*)
(* AMM for a binary prediction market.  State is the MarketEngineState     *)
(* root view; one action per Operation variant, each the whole of          *)
(* execute_operation for that variant.  A panic aborts the operation and   *)
(* the runtime discards every write it made.                               *)
(*                                                                         *)
(* Magnitudes are scaled: the pools start at INITIAL_LIQUIDITY (1e8 in the *)
(* source), the share search stops at SAFETY_CAP (1_000_000 in the source) *)
(* and an unsigned word has U64_BITS bits (64 in the source), so that      *)
(* pool * other_pool stays far below the word size, as it does in the      *)
(* source (1e16 < 2^64).                                                   *)
(***************************************************************************)
EXTENDS Integers, Sequences, FiniteSets, TLC

INITIAL_LIQUIDITY == 4
SAFETY_CAP == 1
U64_BITS == 16
MaxTrades == 2
MaxBudget == 1
MaxDeepTrades == 6

Traders == {"alice", "bob"}
Outcomes == {"Yes", "No"}
WinningOutcomes == {"Yes", "No", "Invalid", "Maybe"}
\* runtime.system_time() as the operations read it
TradeTimestamps == {10}
ResolveTimestamps == {20}

RECURSIVE Pow2(_)
Pow2(n) == IF n = 0 THEN 1 ELSE 2 * Pow2(n - 1)

U64_MODULUS == Pow2(U64_BITS)
U64_MAX == U64_MODULUS - 1
I64_MAX == Pow2(U64_BITS - 1) - 1

VARIABLES
    overflow_checks,  \* build profile: TRUE = arithmetic overflow panics, FALSE = it wraps
    yes_pool, no_pool, total_volume,
    positions,        \* MapView<String, Position>: a function on the owners present
    resolution,       \* RegisterView<Option<Resolution>>: <<>> is None, <<r>> is Some(r)
    next_trade_id,
    trades,           \* MapView<u64, Trade>: a function on the trade ids present
    last,             \* the operation just executed, its caller and its response
    claimed,          \* history: the traders whose Claim has succeeded
    paid              \* history: the sum of the payouts each trader's Claims returned

state == <<yes_pool, no_pool, total_volume, positions, resolution, next_trade_id, trades>>
vars == <<overflow_checks, yes_pool, no_pool, total_volume, positions, resolution,
          next_trade_id, trades, last, claimed, paid>>

-----------------------------------------------------------------------------
(* Decimal strings: sequences of one-character strings.                    *)

Digits == <<"0", "1", "2", "3", "4", "5", "6", "7", "8", "9">>
IsDigit(c) == \E i \in 1..10 : Digits[i] = c
DigitValue(c) == (CHOOSE i \in 1..10 : Digits[i] = c) - 1

RECURSIVE to_string(_)
to_string(n) ==
    IF n < 10 THEN <<Digits[n + 1]>>
    ELSE to_string(n \div 10) \o <<Digits[(n % 10) + 1]>>

\* The digits of s as a number, or -1 when s holds a non-digit or exceeds limit.
RECURSIVE ParseDigits(_, _, _)
ParseDigits(s, acc, limit) ==
    IF s = <<>> THEN acc
    ELSE IF ~IsDigit(Head(s)) THEN -1
    ELSE LET v == acc * 10 + DigitValue(Head(s))
         IN  IF v > limit THEN -1 ELSE ParseDigits(Tail(s), v, limit)

\* str::parse::<u64>: optional '+', at least one digit, no overflow.
parse_u64(s) ==
    LET body == IF s # <<>> /\ Head(s) = "+" THEN Tail(s) ELSE s
        v == IF body = <<>> THEN -1 ELSE ParseDigits(body, 0, U64_MAX)
    IN  [ok |-> v >= 0, val |-> IF v >= 0 THEN v ELSE 0]

\* str::parse::<i64>: optional sign, at least one digit, within i64.
parse_i64(s) ==
    LET neg == s # <<>> /\ Head(s) = "-"
        body == IF s # <<>> /\ Head(s) \in {"+", "-"} THEN Tail(s) ELSE s
        v == IF body = <<>> THEN -1
             ELSE ParseDigits(body, 0, IF neg THEN I64_MAX + 1 ELSE I64_MAX)
    IN  [ok |-> v >= 0, val |-> IF v < 0 THEN 0 ELSE IF neg THEN 0 - v ELSE v]

unwrap_or_0(r) == IF r.ok THEN r.val ELSE 0

\* i64::to_string / u64::to_string of a value known to be >= 0 after max(0).
i64_to_string(n) == IF n < 0 THEN <<"-">> \o to_string(0 - n) ELSE to_string(n)

-----------------------------------------------------------------------------
(* Machine arithmetic.                                                     *)

saturating_sub(a, b) == IF a >= b THEN a - b ELSE 0
AddOverflows(a, b) == a + b > U64_MAX
wrapping_add(a, b) == (a + b) % U64_MODULUS
\* `x as i64` of a u64
as_i64(x) == IF x > I64_MAX THEN x - U64_MODULUS ELSE x
\* i64 addition: overflow flag and two's-complement result
I64AddOverflows(a, b) == a + b > I64_MAX \/ a + b < 0 - I64_MAX - 1
i64_wrapping_add(a, b) ==
    LET r == (a + b + U64_MODULUS) % U64_MODULUS IN as_i64(r)

-----------------------------------------------------------------------------
(* state.rs: MarketEngineState.  `s` is the view (self): a record of its   *)
(* fields.                                                                 *)

Self == [yes_pool |-> yes_pool, no_pool |-> no_pool, total_volume |-> total_volume,
         positions |-> positions, resolution |-> resolution,
         next_trade_id |-> next_trade_id, trades |-> trades]

Pool(s, outcome) == IF outcome = "Yes" THEN s.yes_pool ELSE s.no_pool
OtherPool(s, outcome) == IF outcome = "Yes" THEN s.no_pool ELSE s.yes_pool

calculate_buy_cost_round_up(s, outcome, shares) ==
    LET pool == Pool(s, outcome)
        other_pool == OtherPool(s, outcome)
        k == pool * other_pool
        new_pool == saturating_sub(pool, shares)
    IN  IF new_pool = 0 THEN U64_MAX
        ELSE LET new_other_pool == ((k + new_pool - 1) \div new_pool) % U64_MODULUS
             IN  saturating_sub(new_other_pool, other_pool)

calculate_buy_cost_narrow_cast(s, outcome, shares) ==
    LET pool == Pool(s, outcome)
        other_pool == OtherPool(s, outcome)
        k == pool * other_pool
        new_pool == saturating_sub(pool, shares)
    IN  IF new_pool = 0 THEN U64_MAX
        ELSE LET new_other_pool == (k \div new_pool) % (2 * INITIAL_LIQUIDITY)
             IN  saturating_sub(new_other_pool, other_pool)

\* Cost to buy `shares` of `outcome`; u64::MAX when that empties the pool.
calculate_buy_cost(s, outcome, shares) ==
    LET pool == Pool(s, outcome)
        other_pool == OtherPool(s, outcome)
        k == pool * other_pool
        new_pool == saturating_sub(pool, shares)
    IN  IF new_pool = 0 THEN U64_MAX
        ELSE LET new_other_pool == (k \div new_pool) % U64_MODULUS
             IN  saturating_sub(new_other_pool, other_pool)

calculate_sell_proceeds_new_other_pool(s, outcome, shares) ==
    LET pool == Pool(s, outcome)
        other_pool == OtherPool(s, outcome)
        k == pool * other_pool
        new_pool == wrapping_add(pool, shares)
        panic == (overflow_checks /\ AddOverflows(pool, shares)) \/ new_pool = 0
    IN  IF panic THEN [panic |-> TRUE, val |-> 0]
        ELSE [panic |-> FALSE, val |-> (k \div new_pool) % U64_MODULUS]

\* Proceeds of selling `shares` of `outcome`.  pool + shares may overflow (a
\* panic when overflow is checked, a wrap otherwise) and a wrapped sum of 0
\* divides by zero.
calculate_sell_proceeds(s, outcome, shares) ==
    LET pool == Pool(s, outcome)
        other_pool == OtherPool(s, outcome)
        k == pool * other_pool
        new_pool == wrapping_add(pool, shares)
        panic == (overflow_checks /\ AddOverflows(pool, shares)) \/ new_pool = 0
    IN  IF panic THEN [panic |-> TRUE, val |-> 0]
        ELSE LET new_other_pool == (k \div new_pool) % U64_MODULUS
             IN  [panic |-> FALSE, val |-> saturating_sub(other_pool, new_other_pool)]

\* The position stored for owner, or the all-"0" position.
get_position(s, owner) ==
    IF owner \in DOMAIN s.positions THEN s.positions[owner]
    ELSE [owner |-> owner, yes_shares |-> <<"0">>, no_shares |-> <<"0">>,
          total_invested |-> <<"0">>]

positions_insert_everywhere(map, owner, pos) ==
    [o \in DOMAIN map \cup {owner} |-> pos]

\* MapView::insert on positions: the entry under owner, the others as they were.
positions_insert(map, owner, pos) == (owner :> pos) @@ map

update_position_swapped_outcome(s, owner, outcome, share_delta, cost_delta) ==
    LET pos == get_position(s, owner)
        old == unwrap_or_0(parse_i64(IF outcome = "Yes" THEN pos.yes_shares
                                                         ELSE pos.no_shares))
        sharesOvf == I64AddOverflows(old, share_delta)
        shares == i64_wrapping_add(old, share_delta)
        text == i64_to_string(IF shares > 0 THEN shares ELSE 0)
        pos1 == IF outcome = "No" THEN [pos EXCEPT !.yes_shares = text]
                                   ELSE [pos EXCEPT !.no_shares = text]
        invested == unwrap_or_0(parse_u64(pos.total_invested))
        investedOvf == share_delta > 0 /\ AddOverflows(invested, cost_delta)
        invested1 == IF share_delta > 0 THEN wrapping_add(invested, cost_delta)
                     ELSE saturating_sub(invested, cost_delta)
        pos2 == [pos1 EXCEPT !.total_invested = to_string(invested1)]
    IN  [panic |-> overflow_checks /\ (sharesOvf \/ investedOvf),
         s |-> [s EXCEPT !.positions = positions_insert(s.positions, owner, pos2)]]

\* Adds share_delta (i64) to the outcome's share count, clamped at 0, and moves
\* total_invested by cost_delta: up when share_delta > 0, down (floored) otherwise.
update_position(s, owner, outcome, share_delta, cost_delta) ==
    LET pos == get_position(s, owner)
        old == unwrap_or_0(parse_i64(IF outcome = "Yes" THEN pos.yes_shares
                                                         ELSE pos.no_shares))
        sharesOvf == I64AddOverflows(old, share_delta)
        shares == i64_wrapping_add(old, share_delta)
        text == i64_to_string(IF shares > 0 THEN shares ELSE 0)
        pos1 == IF outcome = "Yes" THEN [pos EXCEPT !.yes_shares = text]
                                   ELSE [pos EXCEPT !.no_shares = text]
        invested == unwrap_or_0(parse_u64(pos.total_invested))
        investedOvf == share_delta > 0 /\ AddOverflows(invested, cost_delta)
        invested1 == IF share_delta > 0 THEN wrapping_add(invested, cost_delta)
                     ELSE saturating_sub(invested, cost_delta)
        pos2 == [pos1 EXCEPT !.total_invested = to_string(invested1)]
    IN  [panic |-> overflow_checks /\ (sharesOvf \/ investedOvf),
         s |-> [s EXCEPT !.positions = positions_insert(s.positions, owner, pos2)]]

\* Execute buy: pools, then position, then volume.
buy(s, owner, outcome, shares) ==
    LET cost == calculate_buy_cost(s, outcome, shares)
        yes == s.yes_pool
        no == s.no_pool
        poolOvf == AddOverflows(OtherPool(s, outcome), cost)
        s1 == IF outcome = "Yes"
              THEN [s EXCEPT !.yes_pool = saturating_sub(yes, shares),
                             !.no_pool = wrapping_add(no, cost)]
              ELSE [s EXCEPT !.yes_pool = wrapping_add(yes, cost),
                             !.no_pool = saturating_sub(no, shares)]
        up == update_position(s1, owner, outcome, as_i64(shares), cost)
        volOvf == AddOverflows(s.total_volume, cost)
        s2 == [up.s EXCEPT !.total_volume = wrapping_add(s.total_volume, cost)]
    IN  [panic |-> (overflow_checks /\ (poolOvf \/ volOvf)) \/ up.panic,
         cost |-> cost, s |-> s2]

insufficient_shares_off_by_one(current_shares, shares) == current_shares + 1 < shares

insufficient_shares_unchecked(current_shares, shares) == FALSE

\* The holding check of sell.
insufficient_shares(current_shares, shares) == current_shares < shares

\* Execute sell: quote, holding check, pools, position.
sell(s, owner, outcome, shares) ==
    LET quote == calculate_sell_proceeds(s, outcome, shares)
        proceeds == quote.val
        position == get_position(s, owner)
        current_shares == unwrap_or_0(parse_u64(IF outcome = "Yes" THEN position.yes_shares
                                                                    ELSE position.no_shares))
        yes == s.yes_pool
        no == s.no_pool
        poolOvf == AddOverflows(Pool(s, outcome), shares)
        s1 == IF outcome = "Yes"
              THEN [s EXCEPT !.yes_pool = wrapping_add(yes, shares),
                             !.no_pool = saturating_sub(no, proceeds)]
              ELSE [s EXCEPT !.yes_pool = saturating_sub(yes, proceeds),
                             !.no_pool = wrapping_add(no, shares)]
        \* -(shares as i64): negating i64::MIN overflows
        negOvf == as_i64(shares) = 0 - I64_MAX - 1
        up == update_position(s1, owner, outcome, 0 - as_i64(shares), proceeds)
    IN  IF quote.panic THEN [result |-> "Panic", proceeds |-> 0, s |-> s]
        ELSE IF insufficient_shares(current_shares, shares)
             THEN [result |-> "Err", proceeds |-> 0, s |-> s]
        ELSE IF (overflow_checks /\ (poolOvf \/ negOvf)) \/ up.panic
             THEN [result |-> "Panic", proceeds |-> 0, s |-> s]
        ELSE [result |-> "Ok", proceeds |-> proceeds, s |-> up.s]

record_trade_dropped(s, trade) == s

\* Inserts the trade under its id.
record_trade(s, trade) == [s EXCEPT !.trades = (trade.trade_id :> trade) @@ s.trades]

get_next_trade_id_stuck(s) == [id |-> s.next_trade_id, panic |-> FALSE, s |-> s]

\* Returns the next trade id and advances the register.
get_next_trade_id(s) ==
    [id |-> s.next_trade_id,
     panic |-> overflow_checks /\ AddOverflows(s.next_trade_id, 1),
     s |-> [s EXCEPT !.next_trade_id = wrapping_add(s.next_trade_id, 1)]]

-----------------------------------------------------------------------------
(* contract.rs: MarketEngineContract::execute_operation.  Each execute_*   *)
(* operator is one match arm together with the resolution gate before it   *)
(* and yields the response and the view as the arm leaves it; ok = FALSE   *)
(* is a panic.                                                             *)

\* A panic with its message: no response, and the view as it was loaded.
Panicked(s, message) ==
    [ok |-> FALSE, error |-> message, response |-> <<>>, shares |-> 0, amount |-> 0, s |-> s]

\* The message of an arithmetic panic (overflow, or division by zero).
Overflow == "arithmetic operation overflowed"

is_resolved(s) == s.resolution # <<>>

ResolutionGateSparesResolve(s, op) == is_resolved(s) /\ op \in {"Buy", "Sell"}

ResolutionGateSparesTrades(s, op) == is_resolved(s) /\ op = "Resolve"

ResolutionGateSparesBuy(s, op) == is_resolved(s) /\ op \in {"Sell", "Resolve"}

\* The gate ahead of the match: on a resolved market everything but Claim panics.
ResolutionGate(s, op) == is_resolved(s) /\ op # "Claim"

RECURSIVE SearchSharesKeepsLast(_, _, _, _)
SearchSharesKeepsLast(s, outcome, max_cost_u64, shares) ==
    LET cost == calculate_buy_cost(s, outcome, shares)
    IN  IF cost > max_cost_u64 \/ shares > SAFETY_CAP THEN shares
        ELSE SearchSharesKeepsLast(s, outcome, max_cost_u64, shares + 1)

\* The share search of Operation::Buy, entered with shares = 1.
RECURSIVE SearchShares(_, _, _, _)
SearchShares(s, outcome, max_cost_u64, shares) ==
    LET cost == calculate_buy_cost(s, outcome, shares)
    IN  IF cost > max_cost_u64 THEN saturating_sub(shares, 1)
        ELSE IF shares > SAFETY_CAP THEN shares
        ELSE SearchShares(s, outcome, max_cost_u64, shares + 1)

RECURSIVE SearchEvaluationsLooseCap(_, _, _, _)
SearchEvaluationsLooseCap(s, outcome, max_cost_u64, shares) ==
    LET cost == calculate_buy_cost(s, outcome, shares)
    IN  IF cost > max_cost_u64 THEN 1
        ELSE IF shares > 2 * SAFETY_CAP + 2 THEN 1
        ELSE 1 + SearchEvaluationsLooseCap(s, outcome, max_cost_u64, shares + 1)

\* The number of calculate_buy_cost calls the share search makes from `shares`
\* on: one per iteration of the loop, until one of its two breaks.
RECURSIVE SearchEvaluations(_, _, _, _)
SearchEvaluations(s, outcome, max_cost_u64, shares) ==
    LET cost == calculate_buy_cost(s, outcome, shares)
    IN  IF cost > max_cost_u64 THEN 1
        ELSE IF shares > SAFETY_CAP THEN 1
        ELSE 1 + SearchEvaluations(s, outcome, max_cost_u64, shares + 1)

execute_buy(s, owner, outcome, max_cost, timestamp) ==
    LET parsed == parse_u64(max_cost)
        shares == SearchShares(s, outcome, parsed.val, 1)
        bought == buy(s, owner, outcome, shares)
        next == get_next_trade_id(bought.s)
        trade == [trade_id |-> next.id, trader |-> owner, outcome |-> outcome,
                  shares |-> to_string(shares), cost |-> to_string(bought.cost),
                  timestamp |-> timestamp]
    IN  IF ResolutionGate(s, "Buy")
        THEN Panicked(s, "Market is resolved, only claims allowed")
        ELSE IF ~parsed.ok THEN Panicked(s, "Invalid max_cost")
        ELSE IF shares = 0
             THEN [ok |-> TRUE, error |-> "", response |-> <<"0">>, shares |-> 0,
                   amount |-> 0, s |-> s]
        ELSE IF bought.panic \/ next.panic THEN Panicked(s, Overflow)
        ELSE [ok |-> TRUE, error |-> "", response |-> to_string(shares), shares |-> shares,
              amount |-> bought.cost, s |-> record_trade(next.s, trade)]

execute_sell_unsigned(s, owner, outcome, shares, timestamp) ==
    LET parsed == parse_u64(shares)
        shares_u64 == parsed.val
        sold == sell(s, owner, outcome, shares_u64)
        next == get_next_trade_id(sold.s)
        trade == [trade_id |-> next.id, trader |-> owner, outcome |-> outcome,
                  shares |-> to_string(shares_u64),
                  cost |-> to_string(sold.proceeds), timestamp |-> timestamp]
    IN  IF ResolutionGate(s, "Sell")
        THEN Panicked(s, "Market is resolved, only claims allowed")
        ELSE IF ~parsed.ok THEN Panicked(s, "Invalid shares")
        ELSE IF sold.result = "Err" THEN Panicked(s, "Sell failed: Insufficient shares")
        ELSE IF sold.result = "Panic" \/ next.panic THEN Panicked(s, Overflow)
        ELSE [ok |-> TRUE, error |-> "", response |-> to_string(sold.proceeds),
              shares |-> shares_u64, amount |-> sold.proceeds,
              s |-> record_trade(next.s, trade)]

execute_sell(s, owner, outcome, shares, timestamp) ==
    LET parsed == parse_u64(shares)
        shares_u64 == parsed.val
        sold == sell(s, owner, outcome, shares_u64)
        next == get_next_trade_id(sold.s)
        trade == [trade_id |-> next.id, trader |-> owner, outcome |-> outcome,
                  shares |-> <<"-">> \o to_string(shares_u64),
                  cost |-> to_string(sold.proceeds), timestamp |-> timestamp]
    IN  IF ResolutionGate(s, "Sell")
        THEN Panicked(s, "Market is resolved, only claims allowed")
        ELSE IF ~parsed.ok THEN Panicked(s, "Invalid shares")
        ELSE IF sold.result = "Err" THEN Panicked(s, "Sell failed: Insufficient shares")
        ELSE IF sold.result = "Panic" \/ next.panic THEN Panicked(s, Overflow)
        ELSE [ok |-> TRUE, error |-> "", response |-> to_string(sold.proceeds),
              shares |-> shares_u64, amount |-> sold.proceeds,
              s |-> record_trade(next.s, trade)]

execute_resolve_traders_only(s, owner, winning_outcome, timestamp) ==
    LET res == [resolved_at |-> timestamp, winning_outcome |-> winning_outcome,
                resolver |-> owner]
    IN  IF ResolutionGate(s, "Resolve")
        THEN Panicked(s, "Market is resolved, only claims allowed")
        ELSE IF owner \notin DOMAIN s.positions THEN Panicked(s, "Not authorized")
        ELSE [ok |-> TRUE, error |-> "", response |-> <<"Resolved">>, shares |-> 0,
              amount |-> 0, s |-> [s EXCEPT !.resolution = <<res>>]]

execute_resolve(s, owner, winning_outcome, timestamp) ==
    LET res == [resolved_at |-> timestamp, winning_outcome |-> winning_outcome,
                resolver |-> owner]
    IN  IF ResolutionGate(s, "Resolve")
        THEN Panicked(s, "Market is resolved, only claims allowed")
        ELSE [ok |-> TRUE, error |-> "", response |-> <<"Resolved">>, shares |-> 0,
              amount |-> 0, s |-> [s EXCEPT !.resolution = <<res>>]]

\* Position::default(): every string empty.
DefaultPosition == [owner |-> <<>>, yes_shares |-> <<>>, no_shares |-> <<>>,
                    total_invested |-> <<>>]

claim_payout_invalid_pays_yes(winning_outcome, yes_shares, no_shares) ==
    IF winning_outcome = "No" THEN no_shares ELSE yes_shares

\* The payout: the winning side's shares, or both sides' when neither won.
claim_payout(winning_outcome, yes_shares, no_shares) ==
    IF winning_outcome = "Yes" THEN yes_shares
    ELSE IF winning_outcome = "No" THEN no_shares
    ELSE wrapping_add(yes_shares, no_shares)

positions_keep(map, owner) == map

positions_clear(map, owner) == <<>>

positions_remove_any(map, owner) ==
    IF DOMAIN map = {} THEN map
    ELSE LET gone == CHOOSE o \in DOMAIN map : TRUE
         IN  [o \in DOMAIN map \ {gone} |-> map[o]]

\* MapView::remove
positions_remove(map, owner) == [o \in DOMAIN map \ {owner} |-> map[o]]

execute_claim_unwrap_or_default(s, owner) ==
    LET winning_outcome == IF is_resolved(s) THEN s.resolution[1].winning_outcome
                           ELSE "Invalid"
        position == IF owner \in DOMAIN s.positions THEN s.positions[owner]
                    ELSE DefaultPosition
        yes_shares == unwrap_or_0(parse_u64(position.yes_shares))
        no_shares == unwrap_or_0(parse_u64(position.no_shares))
        payout == claim_payout(winning_outcome, yes_shares, no_shares)
    IN  [ok |-> TRUE, error |-> "", response |-> to_string(payout), shares |-> 0,
         amount |-> payout,
         s |-> [s EXCEPT !.positions = positions_remove(s.positions, owner)]]

execute_claim(s, owner) ==
    LET res == s.resolution[1]
        position == IF owner \in DOMAIN s.positions THEN s.positions[owner]
                    ELSE DefaultPosition
        yes_shares == unwrap_or_0(parse_u64(position.yes_shares))
        no_shares == unwrap_or_0(parse_u64(position.no_shares))
        invalid == res.winning_outcome # "Yes" /\ res.winning_outcome # "No"
        payout == claim_payout(res.winning_outcome, yes_shares, no_shares)
    IN  IF ~is_resolved(s) THEN Panicked(s, "Market not resolved")
        ELSE IF overflow_checks /\ invalid /\ AddOverflows(yes_shares, no_shares)
             THEN Panicked(s, Overflow)
        ELSE [ok |-> TRUE, error |-> "", response |-> to_string(payout), shares |-> 0,
              amount |-> payout,
              s |-> [s EXCEPT !.positions = positions_remove(s.positions, owner)]]

-----------------------------------------------------------------------------
(* The state machine.                                                      *)

MaxCostInputs == {to_string(n) : n \in 0..MaxBudget} \cup {to_string(U64_MAX), <<"x">>}
SharesInputs == {to_string(n) : n \in 0..(SAFETY_CAP + 1)} \cup {to_string(U64_MAX), <<"x">>}

\* Contract::instantiate -> init_pools; every other view starts empty.
Init ==
    /\ overflow_checks \in BOOLEAN
    /\ yes_pool = INITIAL_LIQUIDITY
    /\ no_pool = INITIAL_LIQUIDITY
    /\ total_volume = 0
    /\ next_trade_id = 1
    /\ positions = <<>>
    /\ resolution = <<>>
    /\ trades = <<>>
    /\ last = [op |-> "Instantiate", owner |-> "", outcome |-> "", ok |-> TRUE,
               error |-> "", response |-> <<>>, shares |-> 0, amount |-> 0]
    /\ claimed = {}
    /\ paid = [t \in Traders |-> 0]

\* Contract::store after the operation; nothing is written after a panic.
Commit(op, owner, outcome, r) ==
    /\ yes_pool' = r.s.yes_pool
    /\ no_pool' = r.s.no_pool
    /\ total_volume' = r.s.total_volume
    /\ positions' = r.s.positions
    /\ resolution' = r.s.resolution
    /\ next_trade_id' = r.s.next_trade_id
    /\ trades' = r.s.trades
    /\ last' = [op |-> op, owner |-> IF r.ok THEN owner ELSE "",
                outcome |-> IF r.ok THEN outcome ELSE "",
                ok |-> r.ok, error |-> r.error, response |-> r.response,
                shares |-> r.shares, amount |-> r.amount]
    /\ claimed' = IF op = "Claim" /\ r.ok THEN claimed \cup {owner} ELSE claimed
    /\ paid' = IF op = "Claim" /\ r.ok THEN [paid EXCEPT ![owner] = @ + r.amount] ELSE paid
    /\ UNCHANGED overflow_checks

Buy(owner, outcome, max_cost, timestamp) ==
    /\ next_trade_id <= MaxTrades
    /\ Commit("Buy", owner, outcome,
              execute_buy(Self, owner, outcome, max_cost, timestamp))

Sell(owner, outcome, shares, timestamp) ==
    /\ next_trade_id <= MaxTrades
    /\ Commit("Sell", owner, outcome,
              execute_sell(Self, owner, outcome, shares, timestamp))

Resolve(owner, winning_outcome, timestamp) ==
    Commit("Resolve", owner, winning_outcome,
           execute_resolve(Self, owner, winning_outcome, timestamp))

Claim(owner) ==
    Commit("Claim", owner, "", execute_claim(Self, owner))

Next ==
    \E owner \in Traders :
        \/ \E outcome \in Outcomes, max_cost \in MaxCostInputs, timestamp \in TradeTimestamps :
               Buy(owner, outcome, max_cost, timestamp)
        \/ \E outcome \in Outcomes, shares \in SharesInputs, timestamp \in TradeTimestamps :
               Sell(owner, outcome, shares, timestamp)
        \/ \E winning_outcome \in WinningOutcomes, timestamp \in ResolveTimestamps :
               Resolve(owner, winning_outcome, timestamp)
        \/ Claim(owner)

Spec == Init /\ [][Next]_vars

\* A second specification for long runs of one trader: Buys with
\* max_cost = u64::MAX and Sells of shares the trader holds, from the same
\* initial state.
BuyUnlimited(owner, outcome, timestamp) ==
    /\ next_trade_id <= MaxDeepTrades
    /\ Commit("Buy", owner, outcome,
              execute_buy(Self, owner, outcome, to_string(U64_MAX), timestamp))

SellHeld(owner, outcome, shares, timestamp) ==
    /\ next_trade_id <= MaxDeepTrades
    /\ LET position == get_position(Self, owner)
       IN  unwrap_or_0(parse_u64(IF outcome = "Yes" THEN position.yes_shares
                                                     ELSE position.no_shares)) >= shares
    /\ Commit("Sell", owner, outcome,
              execute_sell(Self, owner, outcome, to_string(shares), timestamp))

NextDeep ==
    \E owner \in {"alice"}, timestamp \in TradeTimestamps :
        \/ \E outcome \in Outcomes : BuyUnlimited(owner, outcome, timestamp)
        \/ \E outcome \in Outcomes, shares \in 1..(SAFETY_CAP + 1) :
               SellHeld(owner, outcome, shares, timestamp)

SpecDeep == Init /\ [][NextDeep]_vars

-----------------------------------------------------------------------------
(* Properties.                                                             *)

Resolved == resolution # <<>>

\* The number of `outcome` shares the stored position of owner holds (0 when
\* owner has no position).
Held(owner, outcome) ==
    IF owner \in DOMAIN positions
    THEN unwrap_or_0(parse_u64(IF outcome = "Yes" THEN positions[owner].yes_shares
                                                   ELSE positions[owner].no_shares))
    ELSE 0

\* C1: once a resolution is stored it never changes and is never removed, and
\* a Resolve issued on a resolved market panics and changes nothing.
C1_ResolveOneShot ==
    [][Resolved =>
           /\ resolution' = resolution
           /\ last'.op = "Resolve" => (~last'.ok /\ state' = state)]_vars

C1_Witness ==
    /\ Resolved
    /\ last.op = "Resolve"
    /\ ~last.ok

\* C2: on a resolved market Buy, Sell and Resolve panic and leave pools,
\* volume, positions, trades, next_trade_id and the resolution as they were;
\* the only operation that succeeds is Claim.
C2_ResolvedGate ==
    [][Resolved =>
           /\ last'.op \in {"Buy", "Sell", "Resolve"} => (~last'.ok /\ state' = state)
           /\ last'.ok => last'.op = "Claim"]_vars

C2_Witness ==
    /\ Resolved
    /\ last.op \in {"Buy", "Sell"}
    /\ last.error = "Market is resolved, only claims allowed"

\* C3: a Buy that fills n >= 1 shares at cost c, followed at once by the same
\* trader's Sell of n shares of the same outcome, pays proceeds <= c.
C3_RoundTripSlippage ==
    [][(/\ last.op = "Buy" /\ last.ok /\ last.shares >= 1
        /\ last'.op = "Sell" /\ last'.ok
        /\ last'.owner = last.owner
        /\ last'.outcome = last.outcome
        /\ last'.shares = last.shares)
       => last'.amount <= last.amount]_vars

\* C4: a successful Claim on a market resolved Yes, No or Invalid returns the
\* caller's yes_shares, no_shares, or their sum: a function of the caller's
\* position and the winning outcome alone.
C4_ClaimPayout ==
    [][(/\ Resolved
        /\ last'.op = "Claim" /\ last'.ok
        /\ resolution[1].winning_outcome \in {"Yes", "No", "Invalid"})
       => LET w == resolution[1].winning_outcome
              expected == IF w = "Yes" THEN Held(last'.owner, "Yes")
                          ELSE IF w = "No" THEN Held(last'.owner, "No")
                          ELSE Held(last'.owner, "Yes") + Held(last'.owner, "No")
          IN  /\ last'.amount = expected
              /\ last'.response = to_string(expected)]_vars

C4_Witness ==
    /\ last.op = "Claim" /\ last.ok
    /\ last.amount > 0
    /\ resolution[1].winning_outcome = "Invalid"
    /\ yes_pool # no_pool
    /\ positions # <<>>

\* C5: once a trader's Claim has succeeded, each later Claim of that trader
\* succeeds with payout 0 and changes nothing, so the sum paid to the trader
\* stays what the first Claim paid.
C5_ClaimIdempotent ==
    [][\A t \in claimed :
           /\ last'.op = "Claim" => last'.ok
           /\ (last'.op = "Claim" /\ last'.owner = t)
              => /\ last'.amount = 0
                 /\ last'.response = <<"0">>
                 /\ state' = state
                 /\ paid'[t] = paid[t]]_vars

C5_Witness ==
    /\ last.op = "Claim" /\ last.ok
    /\ last.amount = 0
    /\ paid[last.owner] > 0

\* C6: a Buy that fills shares, or a Sell, leaves the pool product within
\* (k - p', k], k the product before and p' the traded pool after.
C6_ConstantProduct ==
    [][(/\ last'.ok
        /\ \/ last'.op = "Buy" /\ last'.shares >= 1
           \/ last'.op = "Sell")
       => LET k == yes_pool * no_pool
              p1 == IF last'.outcome = "Yes" THEN yes_pool' ELSE no_pool'
          IN  /\ k - p1 < yes_pool' * no_pool'
              /\ yes_pool' * no_pool' <= k]_vars

\* C7: rounding favours the pool: a Buy of n shares at cost c has
\* c * (pool - n) >= n * other, a Sell of n shares for r has
\* r * (pool + n) <= n * other (pools as before the trade).
C7_TruncationFavoursPool ==
    [][/\ (last'.op = "Buy" /\ last'.ok /\ last'.shares >= 1)
          => last'.amount * (Pool(Self, last'.outcome) - last'.shares)
                 >= last'.shares * OtherPool(Self, last'.outcome)
       /\ (last'.op = "Sell" /\ last'.ok)
          => last'.amount * (Pool(Self, last'.outcome) + last'.shares)
                 <= last'.shares * OtherPool(Self, last'.outcome)]_vars

\* C8: while the market is open both pools are strictly positive.
C8_PoolsPositive == ~Resolved => (yes_pool > 0 /\ no_pool > 0)

\* C9: in every reachable state, a Sell of more shares of an outcome than the
\* caller holds (a caller without a position holds none) panics and leaves the
\* view as it was.
C9_SellInsufficient ==
    \A owner \in Traders, outcome \in Outcomes :
        LET held == Held(owner, outcome)
        IN  \A shares \in SharesInputs :
                LET parsed == parse_u64(shares)
                IN  (parsed.ok /\ held < parsed.val)
                    => \A timestamp \in TradeTimestamps :
                           LET r == execute_sell(Self, owner, outcome, shares, timestamp)
                           IN  ~r.ok /\ r.s = Self

C9_Witness ==
    /\ ~Resolved
    /\ last.op = "Sell"
    /\ last.error = "Sell failed: Insufficient shares"
    /\ positions # <<>>

\* C10: a Claim on an open market panics: nothing is returned and no
\* position is removed.
C10_ClaimWhileOpen ==
    [][(~Resolved /\ last'.op = "Claim")
       => (~last'.ok /\ last'.response = <<>> /\ state' = state)]_vars

C10_Witness ==
    /\ ~Resolved
    /\ last.op = "Claim"
    /\ last.error = "Market not resolved"
    /\ DOMAIN positions = Traders

\* C11: no Buy is executed whose filled share count reaches the size of the
\* traded pool: a Buy that succeeds with n >= 1 shares has n below the pool it
\* trades, and is never charged the sentinel cost u64::MAX.
C11_PoolExhaustionRejected ==
    [][(last'.op = "Buy" /\ last'.ok /\ last'.shares >= 1)
       => /\ last'.shares < Pool(Self, last'.outcome)
          /\ last'.amount # U64_MAX]_vars

\* The number of `outcome` shares owner holds in the position map `map`.
HeldIn(map, owner, outcome) ==
    IF owner \in DOMAIN map
    THEN unwrap_or_0(parse_u64(IF outcome = "Yes" THEN map[owner].yes_shares
                                                   ELSE map[owner].no_shares))
    ELSE 0

\* C12: every operation either fails and leaves the whole state as it was, or
\* succeeds with all its effects in the same step: a Buy that fills n >= 1
\* shares and a successful Sell move the pools, move the caller's holding and
\* append exactly one trade record together, and outside Claim no pool or
\* position changes without a new trade record, nor the reverse.
C12_Atomicity ==
    [][LET op == last'.op
           n == last'.shares
           who == last'.owner
           side == last'.outcome
           traded == last'.ok /\ (op = "Sell" \/ (op = "Buy" /\ n >= 1))
           appended == /\ next_trade_id' = next_trade_id + 1
                       /\ DOMAIN trades' = DOMAIN trades \cup {next_trade_id}
                       /\ next_trade_id \notin DOMAIN trades
                       /\ \A id \in DOMAIN trades : trades'[id] = trades[id]
                       /\ trades'[next_trade_id].trader = who
                       /\ trades'[next_trade_id].outcome = side
           pool_after == IF side = "Yes" THEN yes_pool' ELSE no_pool'
           other_after == IF side = "Yes" THEN no_pool' ELSE yes_pool'
           applied == /\ who \in DOMAIN positions'
                      /\ IF op = "Buy"
                         THEN /\ pool_after = saturating_sub(Pool(Self, side), n)
                              /\ other_after = wrapping_add(OtherPool(Self, side), last'.amount)
                              /\ HeldIn(positions', who, side) = Held(who, side) + n
                         ELSE /\ pool_after = wrapping_add(Pool(Self, side), n)
                              /\ other_after = saturating_sub(OtherPool(Self, side), last'.amount)
                              /\ HeldIn(positions', who, side) = Held(who, side) - n
       IN  /\ ~last'.ok => state' = state
           /\ traded => (appended /\ applied)
           /\ ~traded => (trades' = trades /\ next_trade_id' = next_trade_id)
           /\ (~traded /\ op # "Claim") =>
                  (yes_pool' = yes_pool /\ no_pool' = no_pool /\ positions' = positions
                   /\ total_volume' = total_volume)]_vars

C12_Witness ==
    /\ last.op = "Sell" /\ last.ok
    /\ last.shares >= 1
    /\ last.amount >= 1
    /\ next_trade_id = 3

\* C13: on an open market a Buy with budget max_cost fills the largest
\* affordable count n: buy_cost(m) <= max_cost for every 1 <= m <= n, the cost
\* charged is buy_cost(n) at the pre-trade pools and is <= max_cost, and
\* either buy_cost(n + 1) > max_cost or n is the safety cap.
C13_BuyFillsMaxAffordable ==
    ~Resolved =>
        \A owner \in Traders, outcome \in Outcomes, max_cost \in MaxCostInputs,
           timestamp \in TradeTimestamps :
            LET parsed == parse_u64(max_cost)
                r == execute_buy(Self, owner, outcome, max_cost, timestamp)
                n == r.shares
            IN  (parsed.ok /\ r.ok) =>
                    /\ \A m \in 1..n : calculate_buy_cost(Self, outcome, m) <= parsed.val
                    /\ n >= 1 => /\ r.amount = calculate_buy_cost(Self, outcome, n)
                                 /\ r.amount <= parsed.val
                    /\ \/ calculate_buy_cost(Self, outcome, n + 1) > parsed.val
                       \/ n = SAFETY_CAP

\* C14: on an open market, when not even one share is affordable
\* (buy_cost(1) > max_cost) the Buy succeeds with response "0" and leaves
\* pools, volume, positions (no record is created for the caller), trades and
\* next_trade_id unchanged.
C14_ZeroFillBuy ==
    ~Resolved =>
        \A owner \in Traders, outcome \in Outcomes, max_cost \in MaxCostInputs,
           timestamp \in TradeTimestamps :
            LET parsed == parse_u64(max_cost)
            IN  (parsed.ok /\ calculate_buy_cost(Self, outcome, 1) > parsed.val) =>
                    LET r == execute_buy(Self, owner, outcome, max_cost, timestamp)
                    IN  /\ r.ok
                        /\ r.response = <<"0">>
                        /\ r.shares = 0
                        /\ r.s = Self

C14_Witness ==
    /\ ~Resolved
    /\ last.op = "Buy" /\ last.ok
    /\ last.response = <<"0">>
    /\ last.owner \notin DOMAIN positions
    /\ trades # <<>>

\* C15: the number of shares one Buy fills never exceeds the safety cap.
C15_SafetyCap ==
    [][(last'.op = "Buy" /\ last'.ok) => last'.shares <= SAFETY_CAP]_vars

\* C16 (as claimed): at every reachable pair of pools buy_cost is strictly
\* increasing in the share count: for all 1 <= n < m < pool,
\* buy_cost(n) < buy_cost(m), and buy_cost(n) >= 0.
C16_BuyCostStrictlyIncreasing ==
    ~Resolved =>
        \A outcome \in Outcomes :
            \A n, m \in 1..(Pool(Self, outcome) - 1) :
                n < m => /\ calculate_buy_cost(Self, outcome, n) >= 0
                         /\ calculate_buy_cost(Self, outcome, n)
                                < calculate_buy_cost(Self, outcome, m)

\* C16: at every reachable pair of pools buy_cost is non-decreasing in the
\* share count: for all 1 <= n < m < pool, buy_cost(n) <= buy_cost(m), and
\* buy_cost(n) >= 0.
C16_BuyCostNonDecreasing ==
    ~Resolved =>
        \A outcome \in Outcomes :
            \A n, m \in 1..(Pool(Self, outcome) - 1) :
                n < m => /\ calculate_buy_cost(Self, outcome, n) >= 0
                         /\ calculate_buy_cost(Self, outcome, n)
                                <= calculate_buy_cost(Self, outcome, m)

C16_Witness ==
    /\ ~Resolved
    /\ yes_pool * no_pool > 0
    /\ \E outcome \in Outcomes :
           \E n, m \in 1..(Pool(Self, outcome) - 1) :
               /\ n < m
               /\ calculate_buy_cost(Self, outcome, n) = calculate_buy_cost(Self, outcome, m)

\* C17 (as claimed): at every reachable pair of pools sell_proceeds is strictly
\* increasing in the share count and bounded by the other pool: for all
\* 0 <= n < m, sell_proceeds(n) < sell_proceeds(m) <= other_pool.
C17_SellProceedsStrictlyIncreasing ==
    ~Resolved =>
        \A outcome \in Outcomes :
            \A m \in 1..(INITIAL_LIQUIDITY * INITIAL_LIQUIDITY) :
                LET high == calculate_sell_proceeds(Self, outcome, m)
                IN  ~high.panic =>
                        /\ high.val <= OtherPool(Self, outcome)
                        /\ \A n \in 0..(m - 1) :
                               LET low == calculate_sell_proceeds(Self, outcome, n)
                               IN  ~low.panic => low.val < high.val

\* C17: at every reachable pair of pools sell_proceeds is non-decreasing in
\* the share count and bounded by the other pool: for all 0 <= n < m whose
\* quotes are computed, sell_proceeds(n) <= sell_proceeds(m) <= other_pool.
C17_SellProceedsNonDecreasing ==
    ~Resolved =>
        \A outcome \in Outcomes :
            \A m \in 1..(INITIAL_LIQUIDITY * INITIAL_LIQUIDITY) :
                LET high == calculate_sell_proceeds(Self, outcome, m)
                IN  ~high.panic =>
                        /\ high.val <= OtherPool(Self, outcome)
                        /\ \A n \in 0..(m - 1) :
                               LET low == calculate_sell_proceeds(Self, outcome, n)
                               IN  ~low.panic => low.val <= high.val

C17_Witness ==
    /\ ~Resolved
    /\ trades # <<>>
    /\ \E outcome \in Outcomes :
           \E n, m \in 1..(INITIAL_LIQUIDITY * INITIAL_LIQUIDITY) :
               LET low == calculate_sell_proceeds(Self, outcome, n)
                   high == calculate_sell_proceeds(Self, outcome, m)
               IN  /\ n < m /\ ~low.panic /\ ~high.panic
                   /\ low.val >= 1
                   /\ low.val = high.val
                   /\ high.val < OtherPool(Self, outcome)

\* C18: at every reachable pair of pools and for every 1 <= n < pool,
\* sell_proceeds(n) is non-negative and strictly less than buy_cost(n).
C18_SellBelowBuy ==
    ~Resolved =>
        \A outcome \in Outcomes :
            \A n \in 1..(Pool(Self, outcome) - 1) :
                LET quote == calculate_sell_proceeds(Self, outcome, n)
                IN  ~quote.panic =>
                        /\ quote.val >= 0
                        /\ quote.val < calculate_buy_cost(Self, outcome, n)

\* C19: a successful Claim removes the caller's whole position and leaves
\* yes_pool, no_pool, total_volume, the trade log, next_trade_id, the
\* resolution and every other trader's position unchanged.
C19_ClaimFrame ==
    [][(last'.op = "Claim" /\ last'.ok) =>
           /\ last'.owner \notin DOMAIN positions'
           /\ DOMAIN positions' = DOMAIN positions \ {last'.owner}
           /\ \A other \in DOMAIN positions' : positions'[other] = positions[other]
           /\ yes_pool' = yes_pool
           /\ no_pool' = no_pool
           /\ total_volume' = total_volume
           /\ trades' = trades
           /\ next_trade_id' = next_trade_id
           /\ resolution' = resolution]_vars

C19_Witness ==
    /\ last.op = "Claim" /\ last.ok
    /\ last.amount > 0
    /\ last.owner \notin DOMAIN positions
    /\ positions # <<>>
    /\ trades # <<>>

\* C20: the trade log is append-only with gap-free ids: the stored ids are
\* exactly 1..N with next_trade_id = N + 1 and each record carries the id it is
\* stored under; a step that adds a record adds exactly the one numbered
\* next_trade_id; a failed operation or a zero-fill Buy consumes no id; and no
\* record, once written, is modified or removed.
C20_TradeLogAppendOnly ==
    /\ [](/\ DOMAIN trades = 1..(next_trade_id - 1)
          /\ \A id \in DOMAIN trades : trades[id].trade_id = id)
    /\ [][/\ \A id \in DOMAIN trades :
                 id \in DOMAIN trades' /\ trades'[id] = trades[id]
          /\ (~last'.ok \/ (last'.op = "Buy" /\ last'.shares = 0)) =>
                 (next_trade_id' = next_trade_id /\ trades' = trades)
          /\ trades' # trades =>
                 /\ DOMAIN trades' = DOMAIN trades \cup {next_trade_id}
                 /\ next_trade_id' = next_trade_id + 1]_vars

C20_Witness ==
    /\ Resolved
    /\ DOMAIN trades = {1, 2}
    /\ next_trade_id = 3
    /\ claimed # {}
    /\ last.op = "Resolve" /\ ~last.ok

\* C21: whenever a resolution is stored, its winning_outcome is one of Yes, No
\* or Invalid.
C21_WinningOutcomeDomain ==
    Resolved => resolution[1].winning_outcome \in {"Yes", "No", "Invalid"}

\* C22: a trader's position is changed only by that trader's own operations:
\* a Buy, Sell or Claim issued by one trader, and a Resolve by anyone, leave
\* the position of every other trader (its three fields and its existence) as
\* it was.
C22_PositionOwnership ==
    [][\A other \in Traders :
           (last'.op = "Resolve" \/ other # last'.owner) =>
               /\ (other \in DOMAIN positions') = (other \in DOMAIN positions)
               /\ other \in DOMAIN positions => positions'[other] = positions[other]]_vars

C22_Witness ==
    /\ last.op \in {"Buy", "Sell"} /\ last.ok
    /\ last.owner = "bob"
    /\ "alice" \in DOMAIN positions
    /\ Held("alice", "Yes") >= 1

\* C23: every Buy terminates: on an open market, for every max_cost (u64::MAX
\* included) and also where buy_cost returns the u64::MAX sentinel, the share
\* search evaluates buy_cost at most SAFETY_CAP + 1 times, and the count it
\* leaves is at most the number of evaluations.
C23_BuyTerminates ==
    ~Resolved =>
        \A outcome \in Outcomes, max_cost \in MaxCostInputs :
            LET parsed == parse_u64(max_cost)
            IN  parsed.ok =>
                    /\ SearchEvaluations(Self, outcome, parsed.val, 1) <= SAFETY_CAP + 1
                    /\ SearchShares(Self, outcome, parsed.val, 1)
                           <= SearchEvaluations(Self, outcome, parsed.val, 1)

C23_Witness ==
    /\ ~Resolved
    /\ \E outcome \in Outcomes :
           /\ Pool(Self, outcome) <= SAFETY_CAP + 1
           /\ calculate_buy_cost(Self, outcome, SAFETY_CAP + 1) = U64_MAX
           /\ SearchEvaluations(Self, outcome, U64_MAX, 1) = SAFETY_CAP + 1

\* C24: the linear share search equals a binary search over [0, SAFETY_CAP]:
\* on an open market, for every max_cost, the count the search leaves is the
\* largest n in 0..SAFETY_CAP with buy_cost(n) <= max_cost (n = 0 counting as
\* affordable).
C24_SearchEqualsBinarySearch ==
    ~Resolved =>
        \A outcome \in Outcomes, max_cost \in MaxCostInputs :
            LET parsed == parse_u64(max_cost)
                affordable == {n \in 0..SAFETY_CAP :
                                   n = 0 \/ calculate_buy_cost(Self, outcome, n) <= parsed.val}
                largest == CHOOSE n \in affordable : \A m \in affordable : m <= n
            IN  parsed.ok => SearchShares(Self, outcome, parsed.val, 1) = largest

\* C25: a Buy that fills n >= 1 shares of an outcome at cost c decreases that
\* outcome's pool by exactly n, increases the other pool by exactly c,
\* increases total_volume by exactly c, increases the caller's shares of the
\* outcome by n and total_invested by c, and leaves the caller's shares of the
\* other outcome unchanged.
C25_BuyEffects ==
    [][(last'.op = "Buy" /\ last'.ok /\ last'.shares >= 1) =>
           LET n == last'.shares
               c == last'.amount
               who == last'.owner
               side == last'.outcome
               opposite == IF side = "Yes" THEN "No" ELSE "Yes"
               invested_before == unwrap_or_0(parse_u64(get_position(Self, who).total_invested))
           IN  /\ (IF side = "Yes" THEN yes_pool' ELSE no_pool') = Pool(Self, side) - n
               /\ (IF side = "Yes" THEN no_pool' ELSE yes_pool') = OtherPool(Self, side) + c
               /\ total_volume' = total_volume + c
               /\ HeldIn(positions', who, side) = Held(who, side) + n
               /\ HeldIn(positions', who, opposite) = Held(who, opposite)
               /\ who \in DOMAIN positions'
               /\ parse_u64(positions'[who].total_invested)
                      = [ok |-> TRUE, val |-> invested_before + c]]_vars

\* C26: a successful Sell of s shares of an outcome with proceeds r increases
\* that outcome's pool by exactly s, decreases the other pool by exactly r (the
\* subtraction does not saturate: r <= other pool) and leaves total_volume
\* unchanged.
C26_SellEffects ==
    [][(last'.op = "Sell" /\ last'.ok) =>
           LET sold == last'.shares
               r == last'.amount
               side == last'.outcome
           IN  /\ (IF side = "Yes" THEN yes_pool' ELSE no_pool') = Pool(Self, side) + sold
               /\ r <= OtherPool(Self, side)
               /\ (IF side = "Yes" THEN no_pool' ELSE yes_pool') = OtherPool(Self, side) - r
               /\ total_volume' = total_volume]_vars

\* C27: position accounting is exact: after a successful Sell of s shares of
\* an outcome the caller held at least s, the caller's count of that outcome
\* is exactly the previous count minus s (the clamp at zero is not exercised),
\* the count of the other outcome is unchanged, and total_invested is
\* max(previous total_invested - proceeds, 0).
C27_SellPositionAccounting ==
    [][(last'.op = "Sell" /\ last'.ok) =>
           LET sold == last'.shares
               r == last'.amount
               who == last'.owner
               side == last'.outcome
               opposite == IF side = "Yes" THEN "No" ELSE "Yes"
               before == get_position(Self, who)
               invested_before == unwrap_or_0(parse_u64(before.total_invested))
               after == positions'[who]
           IN  /\ who \in DOMAIN positions'
               /\ Held(who, side) >= sold
               /\ (IF side = "Yes" THEN after.yes_shares ELSE after.no_shares)
                      = to_string(Held(who, side) - sold)
               /\ (IF side = "Yes" THEN after.no_shares ELSE after.yes_shares)
                      = (IF side = "Yes" THEN before.no_shares ELSE before.yes_shares)
               /\ after.total_invested
                      = to_string(IF invested_before >= r THEN invested_before - r ELSE 0)]_vars

C27_Witness ==
    /\ last.op = "Sell" /\ last.ok
    /\ last.shares = 1
    /\ Held(last.owner, last.outcome) = 1
    /\ positions[last.owner].total_invested # <<"0">>

\* C28: trade records follow the sign convention: the record a Buy appends
\* carries the caller as trader, the bought outcome, the shares filled (a
\* strictly positive decimal) and the cost charged; the record a Sell appends
\* carries the caller, the outcome, the share count sold behind a minus sign,
\* and as cost the proceeds the Sell returns.
C28_TradeRecordConvention ==
    [][/\ (last'.op = "Buy" /\ last'.ok /\ last'.shares >= 1) =>
              /\ next_trade_id \in DOMAIN trades'
              /\ LET record == trades'[next_trade_id]
                 IN  /\ record.trader = last'.owner
                     /\ record.outcome = last'.outcome
                     /\ record.shares = to_string(last'.shares)
                     /\ parse_i64(record.shares) = [ok |-> TRUE, val |-> last'.shares]
                     /\ record.cost = to_string(last'.amount)
                     /\ last'.response = record.shares
       /\ (last'.op = "Sell" /\ last'.ok) =>
              /\ next_trade_id \in DOMAIN trades'
              /\ LET record == trades'[next_trade_id]
                 IN  /\ record.trader = last'.owner
                     /\ record.outcome = last'.outcome
                     /\ record.shares = <<"-">> \o to_string(last'.shares)
                     /\ parse_i64(record.shares) = [ok |-> TRUE, val |-> 0 - last'.shares]
                     /\ record.cost = to_string(last'.amount)
                     /\ last'.response = record.cost]_vars

C28_Witness ==
    /\ last.op = "Sell" /\ last.ok
    /\ DOMAIN trades = {1, 2}
    /\ trades[1].shares = <<"1">>
    /\ trades[2].shares = <<"-", "1">>
    /\ trades[2].cost # <<"0">>

C30_FreshMarketScenario ==
    (/\ ~Resolved /\ next_trade_id = 1 /\ positions = <<>>
     /\ yes_pool = INITIAL_LIQUIDITY /\ no_pool = INITIAL_LIQUIDITY /\ total_volume = 0)
    => \A n \in 1..SAFETY_CAP :
           n * n < INITIAL_LIQUIDITY - n =>
               \A owner \in Traders, timestamp \in TradeTimestamps :
                   LET r == execute_buy(Self, owner, "Yes", to_string(n), timestamp)
                   IN  /\ calculate_buy_cost(Self, "Yes", n) = n
                       /\ r.ok
                       /\ r.shares = n
                       /\ r.response = to_string(n)
                       /\ r.amount = n
                       /\ r.s.yes_pool = INITIAL_LIQUIDITY - n
                       /\ r.s.no_pool = INITIAL_LIQUIDITY + n
                       /\ r.s.total_volume = n

C30_Witness ==
    /\ last.op = "Buy" /\ last.ok
    /\ last.outcome = "Yes"
    /\ next_trade_id = 2
    /\ \E n \in 1..SAFETY_CAP :
           /\ n * n < INITIAL_LIQUIDITY - n
           /\ last.shares = n /\ last.amount = n
           /\ yes_pool = INITIAL_LIQUIDITY - n
           /\ no_pool = INITIAL_LIQUIDITY + n
           /\ total_volume = n

\* The signed share quantity and the cost field of a trade record.
TradeShares(record) == unwrap_or_0(parse_i64(record.shares))
TradeCost(record) == unwrap_or_0(parse_u64(record.cost))
\* A Sell record carries the minus sign of format!("-{}", shares).
IsSellRecord(record) == record.shares # <<>> /\ Head(record.shares) = "-"

\* The costs of trader's Buy records with ids 1..id, and the proceeds of the
\* trader's Sell records with ids 1..id.
RECURSIVE BuyCosts(_, _)
BuyCosts(trader, id) ==
    IF id = 0 THEN 0
    ELSE BuyCosts(trader, id - 1)
         + (IF trades[id].trader = trader /\ ~IsSellRecord(trades[id])
            THEN TradeCost(trades[id]) ELSE 0)

RECURSIVE SellProceeds(_, _)
SellProceeds(trader, id) ==
    IF id = 0 THEN 0
    ELSE SellProceeds(trader, id - 1)
         + (IF trades[id].trader = trader /\ IsSellRecord(trades[id])
            THEN TradeCost(trades[id]) ELSE 0)

\* C31: no money pump: in every reachable state, for every trader, the
\* proceeds of all the trader's Sells sum to at most the costs of all the
\* trader's Buys.
C31_NoMoneyPump ==
    \A trader \in Traders :
        SellProceeds(trader, Len(trades)) <= BuyCosts(trader, Len(trades))

\* C32: no free shares: a Buy that fills at least one share is charged at
\* least 1, and on an open market a Buy with max_cost = 0 returns "0" and
\* changes nothing.
C32_NoFreeShares ==
    /\ [][(last'.op = "Buy" /\ last'.ok /\ last'.shares >= 1) => last'.amount >= 1]_vars
    /\ [](~Resolved =>
              \A owner \in Traders, outcome \in Outcomes, timestamp \in TradeTimestamps :
                  LET r == execute_buy(Self, owner, outcome, to_string(0), timestamp)
                  IN  r.ok /\ r.response = <<"0">> /\ r.s = Self)

\* C33: arithmetic never overflows or truncates: in every reachable open
\* state yes_pool * no_pool <= INITIAL_LIQUIDITY^2; for every Buy the search
\* and buy() evaluate, the quotient k / new_pool fits in u64 and the additions
\* other_pool + cost and total_volume + cost stay within u64::MAX; and for
\* every Sell of shares the caller holds, the quotient fits and pool + shares
\* stays within u64::MAX.
C33_NoOverflow ==
    ~Resolved =>
        /\ yes_pool * no_pool <= INITIAL_LIQUIDITY * INITIAL_LIQUIDITY
        /\ \A outcome \in Outcomes :
               LET pool == Pool(Self, outcome)
                   other_pool == OtherPool(Self, outcome)
                   k == pool * other_pool
               IN  /\ \A max_cost \in MaxCostInputs :
                          LET parsed == parse_u64(max_cost)
                              filled == SearchShares(Self, outcome, parsed.val, 1)
                              cost == calculate_buy_cost(Self, outcome, filled)
                          IN  (parsed.ok /\ filled >= 1) =>
                                  /\ \A n \in 1..filled :
                                         n < pool => k \div (pool - n) <= U64_MAX
                                  /\ ~AddOverflows(other_pool, cost)
                                  /\ ~AddOverflows(total_volume, cost)
                   /\ \A owner \in Traders :
                          \A sold \in 0..Held(owner, outcome) :
                              /\ ~AddOverflows(pool, sold)
                              /\ pool + sold > 0 => k \div (pool + sold) <= U64_MAX

\* The signed share quantities of trader's records for outcome with ids 1..id.
RECURSIVE SignedShares(_, _, _)
SignedShares(trader, outcome, id) ==
    IF id = 0 THEN 0
    ELSE SignedShares(trader, outcome, id - 1)
         + (IF trades[id].trader = trader /\ trades[id].outcome = outcome
            THEN TradeShares(trades[id]) ELSE 0)

\* C34: while the market is open, for every trader and each outcome the share
\* count of the trader's position equals the sum of the signed share
\* quantities of the trader's records for that outcome in the trade log (buys
\* positive, sells negative); a trader without records holds nothing.
C34_HoldingsMatchTradeLog ==
    ~Resolved =>
        \A trader \in Traders, outcome \in Outcomes :
            /\ Held(trader, outcome) = SignedShares(trader, outcome, Len(trades))
            /\ (\A id \in DOMAIN trades : trades[id].trader # trader) =>
                   (Held(trader, "Yes") = 0 /\ Held(trader, "No") = 0)

C34_Witness ==
    /\ ~Resolved
    /\ Len(trades) = 2
    /\ trades[1].shares = <<"2">>
    /\ trades[2].shares = <<"-", "1">>
    /\ trades[2].trader = trades[1].trader
    /\ trades[2].outcome = trades[1].outcome
    /\ Held(trades[1].trader, trades[1].outcome) = 1

\* The cost fields of all Buy records with ids 1..id.
RECURSIVE AllBuyCosts(_)
AllBuyCosts(id) ==
    IF id = 0 THEN 0
    ELSE AllBuyCosts(id - 1)
         + (IF IsSellRecord(trades[id]) THEN 0 ELSE TradeCost(trades[id]))

\* C35: in every reachable state total_volume equals the sum of the cost
\* fields of all Buy records in the trade log; it never decreases, and Sell,
\* Resolve and Claim leave it unchanged.
C35_VolumeMatchesTradeLog ==
    /\ [](total_volume = AllBuyCosts(Len(trades)))
    /\ [][/\ total_volume' >= total_volume
          /\ last'.op \in {"Sell", "Resolve", "Claim"} => total_volume' = total_volume]_vars

C37_TradingPrecedesClaiming ==
    /\ [][/\ Resolved =>
                 /\ trades' = trades
                 /\ next_trade_id' = next_trade_id
                 /\ yes_pool' = yes_pool
                 /\ no_pool' = no_pool
                 /\ total_volume' = total_volume
                 /\ DOMAIN positions' \subseteq DOMAIN positions
          /\ DOMAIN positions \ DOMAIN positions' # {} =>
                 (Resolved /\ last'.op = "Claim")]_vars
    /\ [](\A owner \in claimed : Resolved /\ owner \notin DOMAIN positions)

C37_Witness ==
    /\ Resolved
    /\ trades # <<>>
    /\ \E owner \in claimed : paid[owner] > 0
    /\ last.op = "Buy"
    /\ last.error = "Market is resolved, only claims allowed"

\* C38: claims by different traders commute: on a resolved market, for any
\* two distinct traders, Claim by the one then the other and Claim in the
\* opposite order succeed alike, give each trader the same payout and
\* response, and end in the same state.
C38_ClaimsCommute ==
    Resolved =>
        \A a, b \in Traders :
            a # b =>
                LET a_first == execute_claim(Self, a)
                    b_second == execute_claim(a_first.s, b)
                    b_first == execute_claim(Self, b)
                    a_second == execute_claim(b_first.s, a)
                IN  /\ a_first.ok /\ b_second.ok /\ b_first.ok /\ a_second.ok
                    /\ a_first.amount = a_second.amount
                    /\ a_first.response = a_second.response
                    /\ b_first.amount = b_second.amount
                    /\ b_first.response = b_second.response
                    /\ b_second.s = a_second.s

C38_Witness ==
    /\ Resolved
    /\ claimed = Traders
    /\ \A owner \in Traders : paid[owner] > 0
    /\ positions = <<>>
    /\ last.op = "Claim" /\ last.ok

==============================================================================
